---- MODULE Spec2Model ----
(***************************************************************************)
(* The UMEM, fill queue and completion queue of xsk-rs (src/umem/mod.rs),  *)
(* together with the libbpf ring helpers they call and the kernel side of  *)
(* the two rings.                                                          *)
(*                                                                         *)
(* Integer widths are scaled: a u32 is U32Bits wide, so that a cursor or   *)
(* a product can be driven past its largest value within the bounds.       *)
(***************************************************************************)
EXTENDS Integers, Sequences, FiniteSets, TLC

(* ------------------------------ bounds -------------------------------- *)

\* width of a u32 (cursors, idx, frame_count, frame_size), scaled
U32Bits == 3
\* the specifications of one ring: log2 of fill_queue_size and comp_queue_size,
\* frame_count, and the largest batch size a caller asks for besides 2^U32Bits
QueueSizeLog2 == 1
RingFrameCount == 3
MaxNb == 3
\* the same three for the specification that runs both rings together
JointQueueSizeLog2 == 0
JointFrameCount == 2
JointMaxNb == 1

RECURSIVE Pow2(_)
Pow2(n) == IF n = 0 THEN 1 ELSE 2 * Pow2(n - 1)

U32Mod == Pow2(U32Bits)
U32Max == U32Mod - 1

Min(a, b) == IF a <= b THEN a ELSE b

\* u32 arithmetic of the C helpers: unsigned, wrapping
WrapAdd(a, b) == (a + b) % U32Mod
WrapSub(a, b) == (a - b + U32Mod) % U32Mod

(* ------------------------------- state -------------------------------- *)

VARIABLES
    overflow_checks, \* build profile: TRUE = arithmetic overflow panics (debug)
    frame_count,     \* Umem.frame_count / Config.frame_count
    frame_size,      \* Umem.frame_size / Config.frame_size
    umem,            \* "new" | "builder" | "mmap_failed" | "create_failed" |
                     \* "panicked" | "live" | "deleting" | "dropped"
    mapped,          \* the MmapArea is mapped
    kobj,            \* the kernel UMEM object and its ring mappings:
                     \* "none" | "registered" | "deleted"
    sink,            \* what was written to stderr, oldest first
    frame_descs,     \* Umem.frame_descs: <<pool>> is Some(pool), <<>> is None
    mem,             \* the mapped region, offset -> byte
    last,            \* the last Umem call and its result
    fq,              \* the fill ring: xsk_ring_prod and the shared cursors and slots
    cq,              \* the completion ring: xsk_ring_cons and the shared cursors and slots
    descs,           \* the caller's VecDeque<FrameDesc>
    pc,              \* position of the user thread inside produce / consume / drop
    call,            \* arguments and locals of the call in progress
    kern_rx,         \* frames the kernel took from the fill ring, oldest first
    kern_tx,         \* frames handed to the kernel for transmission, oldest first
    pending,         \* addrs produce removed from descs that the kernel has not
                     \* read from the fill ring yet, oldest first
    rx               \* the RX path of the socket: ring = frames holding a delivered
                     \* packet, oldest first; sent = packets the peer has sent;
                     \* committed = frames committed to the fill queue so far;
                     \* returned = frames RX consume has returned so far;
                     \* ret = what the last RX consume returned, -1 before the first

vars == <<overflow_checks, frame_count, frame_size, umem, mapped, kobj, sink,
          frame_descs, mem, last,
          fq, cq, descs, pc, call, kern_rx, kern_tx, pending, rx>>

\* what the life of a Umem changes besides its status
life_vars == <<mapped, kobj, sink>>
umem_vars == <<overflow_checks, frame_count, frame_size, umem, mapped, kobj, sink,
               frame_descs, mem, last>>
ring_vars == <<fq, cq, descs, pc, call, kern_rx, kern_tx, pending, rx>>

(* --------------------------- FrameDesc, pool --------------------------- *)

FrameDesc(addr, len, options) == [addr |-> addr, len |-> len, options |-> options]

NoCall == [op |-> "none"]
NoRet == [kind |-> "none", v |-> 0]
OkRet(v) == [kind |-> "Ok", v |-> v]
ErrRet(e) == [kind |-> "Err", v |-> e]
\* the two panics of the ring code: unwrap() on None, and arithmetic overflow
UnwrapPanic == [kind |-> "panic_unwrap", v |-> 0]
OverflowPanic == [kind |-> "panic_overflow", v |-> 0]
NoLast == [op |-> "none"]

(* ------------------------------- Config -------------------------------- *)

\* smallest frame size the configuration accepts (XDP_UMEM_MIN_CHUNK_SIZE, scaled)
MinChunkSize == Pow2(1)
\* width of the native address type: the source assumes a 64-bit target
UsizeMod == U32Mod * U32Mod

\* largest frame_count the creation specification draws
MaxFrameCount == 5
\* error codes xsk_umem__create, mmap and poll can report
ErrCodes == {12, 22}

FrameSizes == {Pow2(k) : k \in 0..(U32Bits - 1)} \ {n \in 0..U32Max : n < MinChunkSize}

\* a configuration the Config builder accepts
ValidConfig(fc, fs) ==
    /\ fc \in 1..U32Max
    /\ fs \in FrameSizes
    /\ fc * fs < UsizeMod

(* ------------------------ Umem creation and pool ----------------------- *)

\* i * frame_size as the u32 product of create_umem: the wrapped value in a
\* build that does not check overflow, a panic in one that does
U32Mul(a, b) == (a * b) % U32Mod
U32MulPanics(a, b, checks) == checks /\ a * b > U32Max

\* the loop of create_umem: the descriptors pushed for i = 0 .. n-1
RECURSIVE BuildFrameDescs(_, _)
BuildFrameDescs(n, fs) ==
    IF n = 0 THEN <<>>
    ELSE Append(BuildFrameDescs(n - 1, fs), FrameDesc(U32Mul(n - 1, fs), 0, 0))

PoolPanics(fc, fs, checks) ==
    \E i \in 0..(fc - 1) : U32MulPanics(i, fs, checks)

ZeroMem(len) == [o \in 0..(len - 1) |-> 0]

\* UmemBuilder::create_mmap: the anonymous mapping of umem_len bytes, or an error
CreateMmap ==
    /\ umem = "new"
    /\ \E err \in {0} \cup ErrCodes :
          IF err # 0
          THEN /\ umem' = "mmap_failed"
               /\ last' = [op |-> "create_mmap", result |-> "Err", err |-> err]
               /\ mem' = mem
               /\ mapped' = FALSE
          ELSE /\ umem' = "builder"
               /\ last' = [op |-> "create_mmap", result |-> "Ok"]
               /\ mem' = ZeroMem(frame_count * frame_size)
               /\ mapped' = TRUE
    /\ UNCHANGED <<overflow_checks, frame_count, frame_size, frame_descs, kobj, sink>>
    /\ UNCHANGED ring_vars

\* what xsk_umem__create returns when it fails: a negated errno value
XskUmemCreateErrs == {0 - e : e \in ErrCodes}

\* UmemBuilderWithMmap::create_umem. It takes the builder by value: on the error
\* return and on a panic the builder is dropped and its MmapArea with it, while
\* umem_ptr is a raw pointer that nothing releases. rc is what
\* xsk_umem__create returned.
CreateUmem ==
    /\ umem = "builder"
    /\ \E rc \in {0} \cup XskUmemCreateErrs :
          IF rc # 0
          THEN /\ umem' = "create_failed"
               /\ last' = [op |-> "create_umem", rc |-> rc, result |-> "Err", err |-> rc]
               /\ frame_descs' = frame_descs
               /\ kobj' = kobj
               /\ mapped' = FALSE
          ELSE IF PoolPanics(frame_count, frame_size, overflow_checks)
          THEN /\ umem' = "panicked"
               /\ last' = [op |-> "create_umem", rc |-> rc, result |-> "panic", err |-> 0]
               /\ frame_descs' = frame_descs
               /\ kobj' = "registered"
               /\ mapped' = FALSE
          ELSE /\ umem' = "live"
               /\ last' = [op |-> "create_umem", rc |-> rc, result |-> "Ok", err |-> 0]
               /\ frame_descs' = <<BuildFrameDescs(frame_count, frame_size)>>
               /\ kobj' = "registered"
               /\ mapped' = mapped
    /\ UNCHANGED <<overflow_checks, frame_count, frame_size, mem, sink>>
    /\ UNCHANGED ring_vars

\* Umem::consume_frame_descs: Option::take of the pool; the caller keeps what it
\* gets in its VecDeque
ConsumeFrameDescs ==
    /\ umem = "live"
    /\ pc = "idle"
    /\ last' = [op |-> "consume_frame_descs", result |-> frame_descs]
    /\ frame_descs' = <<>>
    /\ descs' = IF frame_descs = <<>> THEN descs ELSE descs \o frame_descs[1]
    /\ UNCHANGED <<overflow_checks, frame_count, frame_size, umem, mem>>
    /\ UNCHANGED life_vars
    /\ UNCHANGED <<fq, cq, pc, call, kern_rx, kern_tx, pending, rx>>

(* ------------------------------ Drop for Umem -------------------------- *)

\* what xsk_umem__delete returns when it fails: -EBUSY while sockets use the UMEM
XskUmemDeleteErrs == {0 - 16}

\* mutant: a failed xsk_umem__delete is not reported
ReportDeleteFailure_Silent(out, err) == out

\* if err != 0 { eprintln!("xsk_umem__delete failed: {}", err) }
ReportDeleteFailure(out, err) ==
    IF err # 0 THEN Append(out, [msg |-> "xsk_umem__delete failed", err |-> err])
    ELSE out

\* Drop::drop of Umem (lines 204-210): xsk_umem__delete, which on success closes
\* the UMEM's descriptor and unmaps its two rings, then the report of a failure.
\* The owner drops the Umem between its calls and is inside the drop until the
\* fields are gone.
DropUmemDelete ==
    /\ umem = "live"
    /\ pc = "idle"
    /\ \E err \in {0} \cup XskUmemDeleteErrs :
          /\ kobj' = IF err = 0 THEN "deleted" ELSE kobj
          /\ sink' = ReportDeleteFailure(sink, err)
          /\ last' = [op |-> "drop", err |-> err]
    /\ umem' = "deleting"
    /\ pc' = "dropping"
    /\ UNCHANGED <<overflow_checks, frame_count, frame_size, mapped, frame_descs, mem>>
    /\ UNCHANGED <<fq, cq, descs, call, kern_rx, kern_tx, pending, rx>>

\* after Drop::drop the fields are dropped: the MmapArea unmaps the region, the
\* pool that was not taken goes
DropUmemFields ==
    /\ umem = "deleting"
    /\ umem' = "dropped"
    /\ mapped' = FALSE
    /\ frame_descs' = <<>>
    /\ pc' = "idle"
    /\ UNCHANGED <<overflow_checks, frame_count, frame_size, kobj, sink, mem, last>>
    /\ UNCHANGED <<fq, cq, descs, call, kern_rx, kern_tx, pending, rx>>

(* ----------------------------- frame access ---------------------------- *)

\* largest mapped region the frame-access specification starts from
MaxUmemLen == 6

\* mutant: the bounds check admits every addr inside the region
FrameAddrRejected_ByteBound(addr) == addr > frame_count * frame_size - 1

\* the bounds check of frame_ref and frame_ref_mut: addr > frame_count - 1
FrameAddrRejected(addr) == addr > frame_count - 1

\* the byte range a successful frame_ref / frame_ref_mut exposes
FrameSlice(addr) == [start |-> addr, n |-> frame_size]

\* mutant: the length check lets one byte too many through
DataLenRejected_OffByOne(data) == Len(data) > frame_size + 1

\* the length check of copy_data_to_frame: data.len() > frame_size
DataLenRejected(data) == Len(data) > frame_size

\* frame_ref[..data.len()].copy_from_slice(data)
CopyFromSlice(m, start, data) ==
    [o \in DOMAIN m |->
        IF o >= start /\ o < start + Len(data) THEN data[o - start + 1] ELSE m[o]]

\* addresses and data the callers of the frame-access specification pass
AddrInputs == 0..(frame_count * frame_size)
DataInputs == UNION {[1..n -> {v}] : n \in 0..(frame_size + 1), v \in {0, 1}}

\* Umem::frame_ref
FrameRef ==
    /\ umem = "live"
    /\ \E addr \in AddrInputs :
          last' = IF FrameAddrRejected(addr)
                  THEN [op |-> "frame_ref", addr |-> addr, result |-> "InvalidFrameAddr"]
                  ELSE [op |-> "frame_ref", addr |-> addr, result |-> "Ok",
                        slice |-> FrameSlice(addr)]
    /\ UNCHANGED <<overflow_checks, frame_count, frame_size, umem, frame_descs, mem>>
    /\ UNCHANGED life_vars
    /\ UNCHANGED ring_vars

\* Umem::frame_ref_mut
FrameRefMut ==
    /\ umem = "live"
    /\ \E addr \in AddrInputs :
          last' = IF FrameAddrRejected(addr)
                  THEN [op |-> "frame_ref_mut", addr |-> addr, result |-> "InvalidFrameAddr"]
                  ELSE [op |-> "frame_ref_mut", addr |-> addr, result |-> "Ok",
                        slice |-> FrameSlice(addr)]
    /\ UNCHANGED <<overflow_checks, frame_count, frame_size, umem, frame_descs, mem>>
    /\ UNCHANGED life_vars
    /\ UNCHANGED ring_vars

\* Umem::copy_data_to_frame
CopyDataToFrame ==
    /\ umem = "live"
    /\ \E addr \in AddrInputs, data \in DataInputs :
          IF DataLenRejected(data)
          THEN /\ last' = [op |-> "copy_data_to_frame", addr |-> addr, data |-> data,
                           result |-> "InvalidDataLen"]
               /\ mem' = mem
          ELSE IF FrameAddrRejected(addr)
          THEN /\ last' = [op |-> "copy_data_to_frame", addr |-> addr, data |-> data,
                           result |-> "InvalidFrameAddr"]
               /\ mem' = mem
          ELSE /\ last' = [op |-> "copy_data_to_frame", addr |-> addr, data |-> data,
                           result |-> "Ok"]
               /\ mem' = CopyFromSlice(mem, FrameSlice(addr).start, data)
    /\ UNCHANGED <<overflow_checks, frame_count, frame_size, umem, frame_descs>>
    /\ UNCHANGED life_vars
    /\ UNCHANGED ring_vars

(* ------------------------- libbpf ring helpers ------------------------- *)

\* a & b on unsigned integers
RECURSIVE BitAnd(_, _)
BitAnd(a, b) ==
    IF a = 0 \/ b = 0 THEN 0
    ELSE (a % 2) * (b % 2) + 2 * BitAnd(a \div 2, b \div 2)

\* the slot of a ring that idx names: idx & mask
MaskIdx(r, idx) == BitAnd(idx, r.mask)

\* the rings as xsk_umem__create leaves them for a queue size of size entries
NewFillRing(size) ==
    [cached_prod |-> 0, cached_cons |-> size, mask |-> size - 1, size |-> size,
     producer |-> 0, consumer |-> 0, ring |-> [i \in 0..(size - 1) |-> 0]]
NewCompRing(size) ==
    [cached_prod |-> 0, cached_cons |-> 0, mask |-> size - 1, size |-> size,
     producer |-> 0, consumer |-> 0, ring |-> [i \in 0..(size - 1) |-> 0]]

\* xsk_prod_nb_free(r, nb): the cached count when it covers nb, else refreshed
\* from the shared consumer cursor
XskProdNbFree(r, nb) ==
    LET free_entries == WrapSub(r.cached_cons, r.cached_prod)
        refreshed == [r EXCEPT !.cached_cons = WrapAdd(r.consumer, r.size)]
    IN  IF free_entries >= nb
        THEN [r |-> r, free |-> free_entries]
        ELSE [r |-> refreshed,
              free |-> WrapSub(refreshed.cached_cons, refreshed.cached_prod)]

\* mutant: the reservation moves the shared producer cursor as well
XskRingProdReserve_Publish(r, nb, idx) ==
    LET f == XskProdNbFree(r, nb % U32Mod)
    IN  IF f.free < nb
        THEN [r |-> f.r, cnt |-> 0, idx |-> idx]
        ELSE [r |-> [f.r EXCEPT !.cached_prod = WrapAdd(@, nb),
                                !.producer = WrapAdd(@, nb)],
              cnt |-> nb, idx |-> f.r.cached_prod]

\* xsk_ring_prod__reserve(prod, nb, &idx): all of nb or nothing
XskRingProdReserve(r, nb, idx) ==
    LET f == XskProdNbFree(r, nb % U32Mod)
    IN  IF f.free < nb
        THEN [r |-> f.r, cnt |-> 0, idx |-> idx]
        ELSE [r |-> [f.r EXCEPT !.cached_prod = WrapAdd(@, nb)],
              cnt |-> nb, idx |-> f.r.cached_prod]

\* *xsk_ring_prod__fill_addr(fill, idx) = addr
XskFillAddrWrite(r, idx, addr) == [r EXCEPT !.ring[MaskIdx(r, idx)] = addr]

\* mutant: the producer cursor is advanced past the batch
XskRingProdSubmit_TooFar(r, nb) == [r EXCEPT !.producer = WrapAdd(@, nb + 1)]

\* xsk_ring_prod__submit(prod, nb)
XskRingProdSubmit(r, nb) == [r EXCEPT !.producer = WrapAdd(@, nb)]

\* xsk_cons_nb_avail(r, nb): nb is a u32 there
XskConsNbAvail(r, nb) ==
    LET entries == WrapSub(r.cached_prod, r.cached_cons)
        refreshed == [r EXCEPT !.cached_prod = r.producer]
        r2 == IF entries = 0 THEN refreshed ELSE r
        e2 == WrapSub(r2.cached_prod, r2.cached_cons)
    IN  [r |-> r2, entries |-> IF e2 > nb THEN nb ELSE e2]

\* mutant: the peek moves the shared consumer cursor as well
XskRingConsPeek_Release(r, nb, idx) ==
    LET a == XskConsNbAvail(r, nb % U32Mod)
    IN  IF a.entries > 0
        THEN [r |-> [a.r EXCEPT !.cached_cons = WrapAdd(@, a.entries),
                                !.consumer = WrapAdd(@, a.entries)],
              cnt |-> a.entries, idx |-> a.r.cached_cons]
        ELSE [r |-> a.r, cnt |-> 0, idx |-> idx]

\* xsk_ring_cons__peek(cons, nb, &idx)
XskRingConsPeek(r, nb, idx) ==
    LET a == XskConsNbAvail(r, nb % U32Mod)
    IN  IF a.entries > 0
        THEN [r |-> [a.r EXCEPT !.cached_cons = WrapAdd(@, a.entries)],
              cnt |-> a.entries, idx |-> a.r.cached_cons]
        ELSE [r |-> a.r, cnt |-> 0, idx |-> idx]

\* *xsk_ring_cons__comp_addr(comp, idx)
XskCompAddrRead(r, idx) == r.ring[MaskIdx(r, idx)]

\* xsk_ring_cons__release(cons, nb)
XskRingConsRelease(r, nb) == [r EXCEPT !.consumer = WrapAdd(@, nb)]

\* mutant: idx is not advanced
IdxIncrement_Stuck(idx) == idx

\* idx += 1 on a u32: the wrapped value in a build that does not check
\* overflow, a panic in one that does
IdxIncrement(idx) == (idx + 1) % U32Mod
IdxIncrementPanics(idx) == overflow_checks /\ idx + 1 > U32Max

\* entries of a ring between the two shared cursors
Published(r) == WrapSub(r.producer, r.consumer)

(* ------------------------------ FillQueue ------------------------------ *)

\* A call that has returned hands its result to the caller at once: a kernel
\* step reads none of the caller's locals, so it commutes with Return and is
\* taken after it.
Returned == pc \in {"p_ret", "w_ret", "c_ret"}

\* batch sizes the callers pass: small ones, and one a u32 cannot hold
NbInputs(max) == (0..max) \cup {U32Mod}

\* the arguments and locals of a produce call as it starts, with the collection
\* and the ring as the call found them
ProduceFrame(nb) ==
    [op |-> "produce", nb |-> nb, descs0 |-> descs, ring0 |-> fq,
     cnt |-> 0, idx |-> 0, k |-> 0, polls |-> 0, wakeup |-> "unread", ret |-> NoRet]

\* mutant: the batch is not capped by the length of the collection
ProduceBatch_NoLenCap(nb_free, nb, len) == Min(nb_free, nb)

\* cmp::min(nb_free, cmp::min(nb, descs.len()))
ProduceBatch(nb_free, nb, len) == Min(nb_free, Min(nb, len))

\* mutant: the descriptor is read from the front but stays in the collection
PopFront_Keep(d) == [desc |-> Head(d), rest |-> d]

\* descs.pop_front().unwrap() on a collection that is not empty
PopFront(d) == [desc |-> Head(d), rest |-> Tail(d)]

\* FillQueue::produce up to and including the reservation (lines 215-234)
ProduceReserve(nb) ==
    IF nb = 0
    THEN /\ call' = ProduceFrame(nb)
         /\ pc' = "p_ret"
         /\ fq' = fq
    ELSE LET f == XskProdNbFree(fq, 0)
             n == ProduceBatch(f.free, nb, Len(descs))
             res == XskRingProdReserve(f.r, n, 0)
         IN  IF n = 0
             THEN /\ call' = ProduceFrame(nb)
                  /\ pc' = "p_ret"
                  /\ fq' = f.r
             ELSE /\ call' = [ProduceFrame(nb) EXCEPT !.cnt = res.cnt, !.idx = res.idx]
                  /\ pc' = "p_loop"
                  /\ fq' = res.r

\* a call of FillQueue::produce, by the caller or by produce_and_wakeup (line 260).
\* A FillQueue owns its ring block and borrows nothing from the Umem: the call
\* is open to the caller whatever has become of the Umem.
ProduceCall(max) ==
    /\ pc = "idle"
    /\ \E nb \in NbInputs(max) : ProduceReserve(nb)
    /\ UNCHANGED <<cq, descs, kern_rx, kern_tx, pending>>
    /\ UNCHANGED umem_vars
    /\ UNCHANGED rx

\* one iteration of the loop of produce (lines 236-244): pop_front().unwrap(),
\* the slot write, idx += 1
ProduceFill ==
    /\ pc = "p_loop"
    /\ call.k < call.cnt
    /\ IF descs = <<>>
       THEN /\ pc' = "panicked"
            /\ call' = [call EXCEPT !.ret = UnwrapPanic]
            /\ UNCHANGED <<fq, descs, pending>>
       ELSE /\ descs' = PopFront(descs).rest
            /\ pending' = Append(pending, PopFront(descs).desc.addr)
            /\ fq' = XskFillAddrWrite(fq, call.idx, PopFront(descs).desc.addr)
            /\ IF IdxIncrementPanics(call.idx)
               THEN /\ pc' = "panicked"
                    /\ call' = [call EXCEPT !.k = @ + 1, !.ret = OverflowPanic]
               ELSE /\ pc' = "p_loop"
                    /\ call' = [call EXCEPT !.k = @ + 1, !.idx = IdxIncrement(call.idx)]
    /\ UNCHANGED <<cq, kern_rx, kern_tx>>
    /\ UNCHANGED umem_vars
    /\ UNCHANGED rx

\* the end of produce (lines 246-250): submit when cnt > 0, return cnt
ProduceSubmit ==
    /\ pc = "p_loop"
    /\ call.k = call.cnt
    /\ fq' = IF call.cnt > 0 THEN XskRingProdSubmit(fq, call.cnt) ELSE fq
    /\ rx' = [rx EXCEPT !.committed = @ + call.cnt]
    /\ pc' = "p_ret"
    /\ UNCHANGED <<cq, descs, call, kern_rx, kern_tx, pending>>
    /\ UNCHANGED umem_vars

\* error codes poll_read can report
PollErrCodes == {4}

\* self.needs_wakeup() as a local: "set" or "clear" once read, "unread" before
\* and when the && of line 262 does not come to it
WakeupFlag(cnt, needs_wakeup) ==
    IF cnt > 0 THEN (IF needs_wakeup THEN "set" ELSE "clear") ELSE "unread"

\* mutant: the poll does not depend on what produce committed
NeedsPoll_IgnoreCnt(cnt, needs_wakeup) == needs_wakeup

\* the condition of line 262: cnt > 0 && self.needs_wakeup()
NeedsPoll(cnt, needs_wakeup) == cnt > 0 /\ needs_wakeup

\* mutant: a failed poll takes the production back
WakeupAndReturn_Rollback ==
    /\ pc = "p_ret"
    /\ \E needs_wakeup \in BOOLEAN, poll \in {0, 1} \cup PollErrCodes :
          IF NeedsPoll(call.cnt, needs_wakeup) /\ poll \in PollErrCodes
          THEN /\ call' = [call EXCEPT !.op = "produce_and_wakeup", !.polls = @ + 1,
                                       !.wakeup = WakeupFlag(call.cnt, needs_wakeup),
                                       !.ret = ErrRet(poll)]
               /\ descs' = call.descs0
               /\ fq' = [fq EXCEPT !.producer = call.ring0.producer,
                                   !.cached_prod = call.ring0.cached_prod]
          ELSE /\ call' = [call EXCEPT !.op = "produce_and_wakeup",
                                       !.polls = IF NeedsPoll(call.cnt, needs_wakeup)
                                                 THEN @ + 1 ELSE @,
                                       !.wakeup = WakeupFlag(call.cnt, needs_wakeup),
                                       !.ret = OkRet(call.cnt)]
               /\ UNCHANGED <<fq, descs>>
    /\ pc' = "w_ret"
    /\ UNCHANGED <<cq, kern_rx, kern_tx, pending>>
    /\ UNCHANGED umem_vars
    /\ UNCHANGED rx

\* the rest of produce_and_wakeup (lines 262-266), when the produce that just
\* returned was its own: the flag is the kernel's and is read once, after the
\* commit; poll_read reports 0 (timed out), 1 (readable) or an error code
WakeupAndReturn ==
    /\ pc = "p_ret"
    /\ \E needs_wakeup \in BOOLEAN, poll \in {0, 1} \cup PollErrCodes :
          IF NeedsPoll(call.cnt, needs_wakeup)
          THEN call' = [call EXCEPT !.op = "produce_and_wakeup",
                                    !.polls = @ + 1,
                                    !.wakeup = WakeupFlag(call.cnt, needs_wakeup),
                                    !.ret = IF poll \in PollErrCodes
                                            THEN ErrRet(poll)
                                            ELSE OkRet(call.cnt)]
          ELSE call' = [call EXCEPT !.op = "produce_and_wakeup",
                                    !.wakeup = WakeupFlag(call.cnt, needs_wakeup),
                                    !.ret = OkRet(call.cnt)]
    /\ pc' = "w_ret"
    /\ UNCHANGED <<fq, cq, descs, kern_rx, kern_tx, pending>>
    /\ UNCHANGED umem_vars
    /\ UNCHANGED rx

\* the caller takes the result; the locals go
Return ==
    /\ Returned
    /\ pc' = "idle"
    /\ call' = NoCall
    /\ UNCHANGED <<fq, cq, descs, kern_rx, kern_tx, pending>>
    /\ UNCHANGED umem_vars
    /\ UNCHANGED rx

\* The shared part of a ring (cursors and slots) is mapped by xsk_umem__create
\* and unmapped by a successful xsk_umem__delete. An access to it afterwards is
\* undefined: it faults, or it goes through on whatever is at the address, which
\* the loop and end steps of produce and consume stand for.
RingFault ==
    /\ kobj = "deleted"
    /\ pc \in {"p_loop", "c_loop"}
    /\ pc' = "fault"
    /\ UNCHANGED <<fq, cq, descs, call, kern_rx, kern_tx, pending, rx>>
    /\ UNCHANGED umem_vars

(* ------------------------------ CompQueue ------------------------------ *)

\* the arguments and locals of a consume call as it starts, with the collection
\* and the ring as the call found them
ConsumeFrame(nb) ==
    [op |-> "consume", nb |-> nb, descs0 |-> descs, ring0 |-> cq,
     cnt |-> 0, idx |-> 0, k |-> 0, polls |-> 0, wakeup |-> "unread", ret |-> NoRet]

\* mutant: the descriptor built for a completed frame carries a length
ConsumedDesc_WithLen(addr) == FrameDesc(addr, 1, 0)

\* FrameDesc::new(addr, 0, 0)
ConsumedDesc(addr) == FrameDesc(addr, 0, 0)

\* mutant: the descriptor read from the ring is not kept
PushBack_Drop(d, desc) == d

\* descs.push_back(desc)
PushBack(d, desc) == Append(d, desc)

\* a call of CompQueue::consume up to and including the peek (lines 282-288);
\* like produce, open to the caller whatever has become of the Umem
ConsumeCall(max) ==
    /\ pc = "idle"
    /\ \E nb \in NbInputs(max) :
          IF nb = 0
          THEN /\ call' = ConsumeFrame(nb)
               /\ pc' = "c_ret"
               /\ cq' = cq
          ELSE LET res == XskRingConsPeek(cq, nb, 0)
               IN  /\ call' = [ConsumeFrame(nb) EXCEPT !.cnt = res.cnt, !.idx = res.idx]
                   /\ pc' = "c_loop"
                   /\ cq' = res.r
    /\ UNCHANGED <<fq, descs, kern_rx, kern_tx, pending>>
    /\ UNCHANGED umem_vars
    /\ UNCHANGED rx

\* one iteration of the loop of consume (lines 290-298): the slot read,
\* push_back of a fresh descriptor, idx += 1
ConsumeRead ==
    /\ pc = "c_loop"
    /\ call.k < call.cnt
    /\ descs' = PushBack(descs, ConsumedDesc(XskCompAddrRead(cq, call.idx)))
    /\ IF IdxIncrementPanics(call.idx)
       THEN /\ pc' = "panicked"
            /\ call' = [call EXCEPT !.k = @ + 1, !.ret = OverflowPanic]
       ELSE /\ pc' = "c_loop"
            /\ call' = [call EXCEPT !.k = @ + 1, !.idx = IdxIncrement(call.idx)]
    /\ UNCHANGED <<fq, cq, kern_rx, kern_tx, pending>>
    /\ UNCHANGED umem_vars
    /\ UNCHANGED rx

\* the end of consume (lines 300-304): release when cnt > 0, return cnt
ConsumeRelease ==
    /\ pc = "c_loop"
    /\ call.k = call.cnt
    /\ cq' = IF call.cnt > 0 THEN XskRingConsRelease(cq, call.cnt) ELSE cq
    /\ pc' = "c_ret"
    /\ UNCHANGED <<fq, descs, call, kern_rx, kern_tx, pending>>
    /\ UNCHANGED umem_vars
    /\ UNCHANGED rx

(* --------------------- kernel side, RX and TX queues ------------------- *)

\* packets the peer sends at most
MaxSent == 2

\* the RX path of a socket just created
NewRx == [ring |-> <<>>, sent |-> 0, committed |-> 0, returned |-> 0, ret |-> 0 - 1]

\* the kernel takes the oldest published fill entry for a future inbound packet
KernelFillConsume ==
    /\ umem = "live"
    /\ ~Returned
    /\ fq.consumer # fq.producer
    /\ kern_rx' = Append(kern_rx, fq.ring[MaskIdx(fq, fq.consumer)])
    /\ pending' = IF pending = <<>> THEN pending ELSE Tail(pending)
    /\ fq' = [fq EXCEPT !.consumer = WrapAdd(@, 1)]
    /\ UNCHANGED <<cq, descs, pc, call, kern_tx>>
    /\ UNCHANGED umem_vars
    /\ UNCHANGED rx

\* the kernel reports the oldest transmitted frame in the completion ring
KernelCompProduce ==
    /\ umem = "live"
    /\ ~Returned
    /\ kern_tx # <<>>
    /\ Published(cq) < cq.size
    /\ cq' = [cq EXCEPT !.ring[MaskIdx(cq, cq.producer)] = Head(kern_tx),
                        !.producer = WrapAdd(@, 1)]
    /\ kern_tx' = Tail(kern_tx)
    /\ UNCHANGED <<fq, descs, pc, call, kern_rx, pending>>
    /\ UNCHANGED umem_vars
    /\ UNCHANGED rx

\* a frame as the RX queue returns it: the packet's length, scaled to 1
ReceivedDesc(addr) == FrameDesc(addr, 1, 0)

\* a packet arrives and the caller receives it at once: the RX queue hands back
\* the frame it arrived in
RxConsume ==
    /\ umem = "live"
    /\ pc = "idle"
    /\ kern_rx # <<>>
    /\ descs' = Append(descs, ReceivedDesc(Head(kern_rx)))
    /\ kern_rx' = Tail(kern_rx)
    /\ rx' = [rx EXCEPT !.sent = @ + 1, !.returned = @ + 1, !.ret = 1]
    /\ UNCHANGED <<fq, cq, pc, call, kern_tx, pending>>
    /\ UNCHANGED umem_vars

\* the peer sends a packet: the kernel delivers it into the oldest frame it took
\* from the fill ring, or drops it when it holds none
PeerTransmit ==
    /\ umem = "live"
    /\ ~Returned
    /\ rx.sent < MaxSent
    /\ IF kern_rx # <<>>
       THEN /\ rx' = [rx EXCEPT !.sent = @ + 1, !.ring = Append(@, Head(kern_rx))]
            /\ kern_rx' = Tail(kern_rx)
       ELSE /\ rx' = [rx EXCEPT !.sent = @ + 1]
            /\ kern_rx' = kern_rx
    /\ UNCHANGED <<fq, cq, descs, pc, call, kern_tx, pending>>
    /\ UNCHANGED umem_vars

\* RX consume into a collection with room for all: every frame that holds a
\* delivered packet, oldest first; it returns their number
RxQueueConsume ==
    /\ umem = "live"
    /\ pc = "idle"
    /\ descs' = descs \o [j \in 1..Len(rx.ring) |-> ReceivedDesc(rx.ring[j])]
    /\ rx' = [rx EXCEPT !.ring = <<>>, !.returned = @ + Len(rx.ring),
                        !.ret = Len(rx.ring)]
    /\ UNCHANGED <<fq, cq, pc, call, kern_rx, kern_tx, pending>>
    /\ UNCHANGED umem_vars

\* the caller sends a packet: the TX queue takes the frame at the front
TxProduce ==
    /\ umem = "live"
    /\ pc = "idle"
    /\ descs # <<>>
    /\ kern_tx' = Append(kern_tx, Head(descs).addr)
    /\ descs' = Tail(descs)
    /\ UNCHANGED <<fq, cq, pc, call, kern_rx, pending>>
    /\ UNCHANGED umem_vars
    /\ UNCHANGED rx

(* --------------------------- specifications ---------------------------- *)

RingsIdle(size) ==
    /\ fq = NewFillRing(size)
    /\ cq = NewCompRing(size)
    /\ descs = <<>>
    /\ pc = "idle"
    /\ call = NoCall
    /\ kern_rx = <<>>
    /\ kern_tx = <<>>
    /\ pending = <<>>
    /\ rx = NewRx

\* what create_umem returns for a configuration it completes on
Created(fc, fs) ==
    /\ frame_count = fc
    /\ frame_size = fs
    /\ umem = "live"
    /\ mapped = TRUE
    /\ kobj = "registered"
    /\ sink = <<>>
    /\ frame_descs = <<BuildFrameDescs(fc, fs)>>
    /\ mem = ZeroMem(fc * fs)
    /\ last = [op |-> "create_umem", rc |-> 0, result |-> "Ok", err |-> 0]

\* both rings together: a Umem of JointFrameCount frames of the smallest size
\* and its two rings, just created
Init ==
    /\ overflow_checks \in BOOLEAN
    /\ Created(JointFrameCount, MinChunkSize)
    /\ RingsIdle(Pow2(JointQueueSizeLog2))

Next ==
    \/ ConsumeFrameDescs
    \/ ProduceCall(JointMaxNb)
    \/ ProduceFill
    \/ ProduceSubmit
    \/ ConsumeCall(JointMaxNb)
    \/ ConsumeRead
    \/ ConsumeRelease
    \/ Return
    \/ KernelFillConsume
    \/ KernelCompProduce
    \/ RxConsume
    \/ TxProduce

Spec == Init /\ [][Next]_vars

\* one ring at a time: a Umem of RingFrameCount frames of the smallest size and
\* its two rings, just created
InitRing ==
    /\ overflow_checks \in BOOLEAN
    /\ Created(RingFrameCount, MinChunkSize)
    /\ RingsIdle(Pow2(QueueSizeLog2))

\* the fill ring: the caller produces, receives and sends; the kernel consumes
NextFill ==
    \/ ConsumeFrameDescs
    \/ ProduceCall(MaxNb)
    \/ ProduceFill
    \/ ProduceSubmit
    \/ WakeupAndReturn
    \/ Return
    \/ KernelFillConsume
    \/ RxConsume
    \/ TxProduce

SpecFill == InitRing /\ [][NextFill]_vars

\* the completion ring: the caller sends and consumes; the kernel produces
NextComp ==
    \/ ConsumeFrameDescs
    \/ ConsumeCall(MaxNb)
    \/ ConsumeRead
    \/ ConsumeRelease
    \/ Return
    \/ KernelCompProduce
    \/ TxProduce

SpecComp == InitRing /\ [][NextComp]_vars

\* the receive path: the caller donates frames and receives; the peer sends
NextRx ==
    \/ ConsumeFrameDescs
    \/ ProduceCall(MaxNb)
    \/ ProduceFill
    \/ ProduceSubmit
    \/ Return
    \/ KernelFillConsume
    \/ PeerTransmit
    \/ RxQueueConsume

SpecRx == InitRing /\ [][NextRx]_vars

\* the life of a Umem with its rings in use: as the joint specification, and
\* the owner may drop the Umem
NextDrop ==
    \/ Next
    \/ WakeupAndReturn
    \/ DropUmemDelete
    \/ DropUmemFields
    \/ RingFault

SpecDrop == Init /\ [][NextDrop]_vars

\* creation: every configuration the builder accepts, nothing created yet
InitPool ==
    /\ overflow_checks \in BOOLEAN
    /\ frame_count \in 1..MaxFrameCount
    /\ frame_size \in FrameSizes
    /\ ValidConfig(frame_count, frame_size)
    /\ umem = "new"
    /\ mapped = FALSE
    /\ kobj = "none"
    /\ sink = <<>>
    /\ frame_descs = <<>>
    /\ mem = <<>>
    /\ last = NoLast
    /\ RingsIdle(Pow2(QueueSizeLog2))

NextPool ==
    \/ CreateMmap
    \/ CreateUmem
    \/ ConsumeFrameDescs
    \/ DropUmemDelete
    \/ DropUmemFields

SpecPool == InitPool /\ [][NextPool]_vars

\* frame access: a Umem just created, of at most MaxUmemLen bytes
InitMem ==
    /\ overflow_checks \in BOOLEAN
    /\ \E fc \in 1..MaxFrameCount, fs \in FrameSizes :
          /\ ValidConfig(fc, fs)
          /\ fc * fs <= MaxUmemLen
          /\ ~PoolPanics(fc, fs, overflow_checks)
          /\ Created(fc, fs)
    /\ RingsIdle(Pow2(QueueSizeLog2))

NextMem ==
    \/ FrameRef
    \/ FrameRefMut
    \/ CopyDataToFrame

SpecMem == InitMem /\ [][NextMem]_vars

(* ------------------------------- claims -------------------------------- *)

\* slots of a ring that its two shared cursors leave free
ActualFree(r) == r.size - Published(r)

\* what is left of a collection after n descriptors went from its front
Without(d, n) == SubSeq(d, n + 1, Len(d))

\* the n slots from the producer cursor of ring0 on hold, in ring r, the addrs
\* of the first n descriptors of d, in order
Committed(r, ring0, d, n) ==
    \A j \in 0..(n - 1) :
        r.ring[MaskIdx(r, WrapAdd(ring0.producer, j))] = d[j + 1].addr

\* C1: produce never reserves more slots than the fill ring has free, never
\* fails to pop a descriptor, and returns a cnt such that exactly cnt descriptors
\* left the front of descs, exactly cnt slots were committed with their addrs,
\* and cnt <= min(free slots, nb, length of descs before the call).
C1_ProduceContract ==
    /\ pc \in {"p_loop", "p_ret"} => call.cnt <= ActualFree(call.ring0)
    /\ pc = "p_loop" => Len(descs) >= call.cnt - call.k
    /\ pc = "panicked" => call.ret # UnwrapPanic
    /\ pc = "p_ret" =>
          /\ call.cnt <= Min(ActualFree(call.ring0), Min(call.nb, Len(call.descs0)))
          /\ descs = Without(call.descs0, call.cnt)
          /\ fq.producer = WrapAdd(call.ring0.producer, call.cnt)
          /\ Committed(fq, call.ring0, call.descs0, call.cnt)

\* a produce that returned 2 because the ring had 2 slots free, with more
\* requested and more available
C1_Witness ==
    /\ pc = "p_ret"
    /\ call.cnt = 2
    /\ ActualFree(call.ring0) = 2
    /\ call.nb > 2
    /\ Len(call.descs0) > 2

\* C3: produce with nb = 0 or with an empty collection returns 0 at once and
\* changes nothing: not the producer cursor, no slot, not descs.
C3_ProduceNoop ==
    (/\ pc \in {"p_loop", "p_ret", "panicked"}
     /\ call.op = "produce"
     /\ (call.nb = 0 \/ call.descs0 = <<>>))
    => (pc = "p_ret" /\ call.cnt = 0 /\ fq = call.ring0 /\ descs = call.descs0)

\* a produce of nb > 0 from an empty collection into a ring with free slots
C3_Witness ==
    /\ pc = "p_ret"
    /\ call.nb > 0
    /\ call.descs0 = <<>>
    /\ ActualFree(call.ring0) > 0

\* C5: each entry the kernel reads from the fill ring is the addr of the oldest
\* descriptor produce removed from descs that the kernel has not read yet: the
\* ring delivers the addrs unaltered and in FIFO order.
C5_FillRingFifo ==
    [][fq'.consumer # fq.consumer =>
          (pending # <<>> /\ kern_rx' = Append(kern_rx, Head(pending)))]_vars

\* the kernel has read a batch of two whose first addr is not that of frame 0
C5_Witness ==
    /\ Len(kern_rx) = 2
    /\ kern_rx[1] # 0
    /\ kern_rx[1] # kern_rx[2]
    /\ pending = <<>>

\* C10: when the poll of produce_and_wakeup fails the call returns the error and
\* the production stands: cursor advanced by cnt, the cnt slots committed, the
\* cnt descriptors gone from descs.
C10_WakeupFailureKeepsProduction ==
    (pc = "w_ret" /\ call.ret.kind = "Err") =>
        /\ call.ret.v \in PollErrCodes
        /\ call.polls = 1
        /\ call.cnt > 0
        /\ fq.producer = WrapAdd(call.ring0.producer, call.cnt)
        /\ Committed(fq, call.ring0, call.descs0, call.cnt)
        /\ descs = Without(call.descs0, call.cnt)

\* a produce_and_wakeup that committed two frames and whose poll failed
C10_Witness ==
    /\ pc = "w_ret"
    /\ call.ret.kind = "Err"
    /\ call.cnt = 2

\* the addrs of a sequence of descriptors, in order
AddrsOf(d) == [i \in 1..Len(d) |-> d[i].addr]

\* the addrs in the n slots of ring r from cursor value from on
SlotAddrs(r, from, n) ==
    [j \in 1..n |-> r.ring[MaskIdx(r, WrapAdd(from, j - 1))]]

\* C4: consume returns cnt <= nb and <= the entries published and not yet
\* released; it appends exactly cnt descriptors to the back of descs, in ring
\* order, each {addr of its slot, len 0, options 0}; the consumer cursor moves by
\* exactly cnt; with nb = 0 it returns 0 and changes nothing.
C4_ConsumeContract ==
    /\ pc \in {"c_loop", "c_ret"} =>
          (call.cnt <= call.nb /\ call.cnt <= Published(call.ring0))
    /\ pc = "c_ret" =>
          /\ descs = call.descs0 \o
                [j \in 1..call.cnt |->
                    FrameDesc(SlotAddrs(call.ring0, call.ring0.consumer, call.cnt)[j], 0, 0)]
          /\ cq.consumer = WrapAdd(call.ring0.consumer, call.cnt)
          /\ call.nb = 0 => (call.cnt = 0 /\ cq = call.ring0 /\ descs = call.descs0)

\* a consume that returned the 2 entries published, with more requested
C4_Witness ==
    /\ pc = "c_ret"
    /\ call.cnt = 2
    /\ Published(call.ring0) = 2
    /\ call.nb > 2

\* where the frames are: in the pool not yet taken, in the caller's collection,
\* in fill-ring slots the kernel has not read (those a running produce has
\* written included), with the kernel, and in completion-ring slots a consume
\* has not read
FramePlaces ==
    (IF frame_descs = <<>> THEN <<>> ELSE AddrsOf(frame_descs[1]))
    \o AddrsOf(descs)
    \o SlotAddrs(fq, fq.consumer,
                 Published(fq) + (IF pc = "p_loop" THEN call.k ELSE 0))
    \o kern_rx
    \o kern_tx
    \o LET read == IF call.op = "consume" /\ pc \in {"c_loop", "panicked"}
                   THEN call.k ELSE 0
       IN  SlotAddrs(cq, WrapAdd(cq.consumer, read), Published(cq) - read)

\* the addrs of the frames of the UMEM
PoolAddrs == {(i - 1) * frame_size : i \in 1..frame_count}

ValidFrameAddr(addr) ==
    addr % frame_size = 0 /\ addr \div frame_size < frame_count

\* C6: the first consume_frame_descs returns exactly frame_count descriptors,
\* addr = i * frame_size (the product, not wrapped) for i = 0 .. frame_count-1,
\* len = 0, options = 0; later calls return None; creation of a valid
\* configuration completes.
C6_PoolIsExact ==
    /\ umem # "panicked"
    /\ last.op = "consume_frame_descs" =>
          /\ frame_descs = <<>>
          /\ last.result # <<>> =>
                last.result[1] =
                    [i \in 1..frame_count |-> FrameDesc((i - 1) * frame_size, 0, 0)]

\* C7: frame_ref, frame_ref_mut and copy_data_to_frame (with data that fits)
\* fail with InvalidFrameAddr on every addr that is not a multiple of
\* frame_size or whose index is >= frame_count.
C7_InvalidAddrRejected ==
    (/\ last.op \in {"frame_ref", "frame_ref_mut", "copy_data_to_frame"}
     /\ ~ValidFrameAddr(last.addr)
     /\ last.op = "copy_data_to_frame" => Len(last.data) <= frame_size)
    => last.result = "InvalidFrameAddr"

\* C8: on every addr of the pool frame_ref returns the frame_size bytes at addr,
\* and copy_data_to_frame of data that fits succeeds and leaves data at the
\* start of that frame.
C8_PoolAddrAccepted ==
    /\ (last.op = "frame_ref" /\ ValidFrameAddr(last.addr)) =>
          (last.result = "Ok" /\ last.slice = [start |-> last.addr, n |-> frame_size])
    /\ (/\ last.op = "copy_data_to_frame"
        /\ ValidFrameAddr(last.addr)
        /\ Len(last.data) <= frame_size) =>
          /\ last.result = "Ok"
          /\ \A j \in 1..Len(last.data) : mem[last.addr + j - 1] = last.data[j]

\* C9: copy_data_to_frame with data longer than frame_size fails with
\* InvalidDataLen whatever addr is, and no byte of the region changes.
C9_LongDataRejected ==
    [][(last'.op = "copy_data_to_frame" /\ Len(last'.data) > frame_size) =>
          (last'.result = "InvalidDataLen" /\ mem' = mem)]_vars

\* a copy of data one byte longer than a frame was refused, at a valid addr of a
\* region that an earlier copy had written
C9_Witness ==
    /\ last.op = "copy_data_to_frame"
    /\ Len(last.data) = frame_size + 1
    /\ last.result = "InvalidDataLen"
    /\ ValidFrameAddr(last.addr)
    /\ \E o \in DOMAIN mem : mem[o] = 1

\* C11: produce_and_wakeup polls the socket exactly once in a call if and only
\* if its produce committed at least one frame and the needs_wakeup flag, read
\* after the commit, was set; otherwise it does not poll; whenever it does not
\* fail it returns the count its produce committed.
C11_PollOnceWhenNeeded ==
    pc = "w_ret" =>
        /\ call.polls \in {0, 1}
        /\ call.polls = 1 <=> (call.cnt > 0 /\ call.wakeup = "set")
        /\ call.ret.kind \in {"Ok", "Err"}
        /\ call.ret.kind = "Err" => call.polls = 1
        /\ call.ret.kind = "Ok" =>
              /\ call.ret.v = call.cnt
              /\ fq.producer = WrapAdd(call.ring0.producer, call.cnt)

\* a produce_and_wakeup that committed a frame, found the flag set, polled once
\* and returned the count
C11_Witness ==
    /\ pc = "w_ret"
    /\ call.cnt > 0
    /\ call.wakeup = "set"
    /\ call.polls = 1
    /\ call.ret = OkRet(call.cnt)

\* C12: creation is atomic. When the registration fails create_umem returns an
\* I/O error carrying the code the registration returned, the region is
\* unmapped and no kernel UMEM object exists; when the registration succeeds
\* the Umem and its two queues are returned, bound to the object registered.
C12_CreationAtomic ==
    /\ umem = "create_failed" =>
          /\ last.result = "Err"
          /\ last.err = last.rc
          /\ ~mapped
          /\ kobj = "none"
    /\ kobj = "registered" =>
          (umem \in {"live", "deleting", "dropped"} /\ (umem = "live" => mapped))

\* C13: when a Umem is destroyed the region is unmapped only after
\* xsk_umem__delete was called; a failure of it has then been written to stderr;
\* destruction does not panic and leaves the region unmapped either way.
C13_DeregisterBeforeUnmap ==
    [][/\ (umem \in {"live", "deleting"} /\ mapped /\ ~mapped') =>
             /\ umem = "deleting"
             /\ last.op = "drop"
             /\ last.err = 0 => kobj = "deleted"
             /\ last.err # 0 => (sink # <<>> /\ sink[Len(sink)].err = last.err)
       /\ umem \in {"live", "deleting"} => umem' \in {"live", "deleting", "dropped"}
       /\ umem' = "dropped" => ~mapped']_vars

\* a Umem is gone whose deregistration failed: reported, region unmapped
C13_Witness ==
    /\ umem = "dropped"
    /\ ~mapped
    /\ kobj = "registered"
    /\ Len(sink) = 1
    /\ sink[1].err \in XskUmemDeleteErrs

C15_FillRingReusable ==
    pc = "p_ret" =>
        /\ call.cnt = Min(ActualFree(call.ring0), Min(call.nb, Len(call.descs0)))
        /\ (ActualFree(call.ring0) >= 1 /\ call.nb >= 1 /\ call.descs0 # <<>>) =>
              call.cnt >= 1

\* C16: the kernel never sees a partially written batch. In every interleaving
\* each slot between the consumer cursor and the published producer cursor holds
\* the addr of the descriptor produced for it, and the producer cursor moves
\* only when all cnt slots of the call have been written.
C16_NoPartialBatchVisible ==
    [][/\ Len(pending') >= Published(fq')
       /\ SlotAddrs(fq', fq'.consumer, Published(fq')) =
             SubSeq(pending', 1, Published(fq'))
       /\ fq'.producer # fq.producer =>
             /\ pc = "p_loop"
             /\ call.k = call.cnt
             /\ fq'.producer = WrapAdd(fq.producer, call.cnt)]_vars

\* a produce has written its slot and not yet published it, after the kernel
\* read an older entry during the call
C16_Witness ==
    /\ pc = "p_loop"
    /\ call.k = call.cnt
    /\ call.cnt >= 1
    /\ fq.consumer # call.ring0.consumer
    /\ Len(pending) > Published(fq)

\* C17: consume reads only slots the kernel has published, those between the
\* consumer cursor and the kernel's producer cursor; the consumer cursor moves
\* only when all cnt slots of the call have been read; so the kernel, which
\* writes only slots outside that range, never overwrites a slot not yet read.
C17_ReadsOnlyPublished ==
    [][/\ (call.op = "consume" /\ pc = "c_loop" /\ call'.k # call.k) =>
             WrapSub(call.idx, cq.consumer) < Published(cq)
       /\ cq'.consumer # cq.consumer =>
             /\ pc = "c_loop"
             /\ call.k = call.cnt
             /\ cq'.consumer = WrapAdd(cq.consumer, call.cnt)
       /\ cq'.producer # cq.producer =>
             /\ Published(cq) < cq.size
             /\ SlotAddrs(cq', cq.consumer, Published(cq)) =
                   SlotAddrs(cq, cq.consumer, Published(cq))]_vars

\* a consume has read the one slot it peeked and not released it, and the kernel
\* has published another entry since the call began
C17_Witness ==
    /\ pc = "c_loop"
    /\ call.op = "consume"
    /\ call.k = call.cnt
    /\ call.cnt >= 1
    /\ cq.producer # call.ring0.producer

\* C18: in every reachable state of either ring the entries between the two
\* cursors, taken modulo 2^32, are at most capacity; the k-th slot of a batch
\* is ((start + k) mod 2^32) mod capacity; and produce and consume complete
\* without an arithmetic failure also when a cursor or idx wraps to 0.
C18_CursorWrapIsSafe ==
    /\ Published(fq) <= fq.size
    /\ Published(cq) <= cq.size
    /\ (pc = "c_loop" /\ call.cnt > 0) =>
          call.idx = WrapAdd(call.ring0.consumer, call.k)
    /\ (pc = "p_loop" /\ call.cnt > 0) =>
          call.idx = WrapAdd(call.ring0.producer, call.k)
    /\ pc # "panicked"

\* C19: once a Umem has been destroyed, its kernel object deregistered and its
\* region unmapped, no produce, produce_and_wakeup or consume is at work on the
\* rings created with it, and none faults on memory that is no longer mapped.
C19_NoRingUseAfterDrop ==
    (umem = "dropped" /\ kobj = "deleted") =>
        pc \notin {"p_loop", "c_loop", "fault"}

\* C20: whenever frame_ref, frame_ref_mut or copy_data_to_frame succeeds, the
\* bytes it exposes or writes, [addr, addr + frame_size), lie inside the mapped
\* region [0, frame_count * frame_size).
C20_AccessInsideRegion ==
    /\ DOMAIN mem = 0..(frame_count * frame_size - 1)
    /\ (last.op \in {"frame_ref", "frame_ref_mut"} /\ last.result = "Ok") =>
          /\ last.slice.start = last.addr
          /\ last.slice.start >= 0
          /\ last.slice.start + last.slice.n <= frame_count * frame_size
    /\ (last.op = "copy_data_to_frame" /\ last.result = "Ok") =>
          /\ last.addr >= 0
          /\ last.addr + frame_size <= frame_count * frame_size

\* a frame_ref_mut that succeeded on the largest addr the check accepts, in a
\* Umem of more than one frame
C20_Witness ==
    /\ last.op = "frame_ref_mut"
    /\ last.result = "Ok"
    /\ frame_count > 1
    /\ last.addr = frame_count - 1

====
